---- MODULE Spec2Model ----
(***************************************************************************)
(* Model of the Socket.IO collaboration hub of whiteboard-realtime-backend *)
(* (src/server.js): the join-whiteboard handler with its two awaited       *)
(* lookups, the edit-gated relays, clear-board, cursor-move and the        *)
(* disconnect handler, over the Socket.IO in-memory adapter (rooms) and    *)
(* the namespace's socket table.                                           *)
(*                                                                         *)
(* Library behaviour assumed (socket.io 4.5 and later):                    *)
(*   - socket.join(room) adds the socket id to the adapter's room set and  *)
(*     never removes it from another room; after the socket has closed     *)
(*     join is a no-op;                                                    *)
(*   - on close the socket leaves all rooms and is removed from the        *)
(*     namespace BEFORE the 'disconnect' listeners run;                    *)
(*   - socket.to(room).emit delivers to every socket of the room that is   *)
(*     still in the namespace, except the emitting socket;                 *)
(*   - socket.emit on a closed socket is dropped.                          *)
(* A handler runs to its next await (or its end) without interleaving.     *)
(*                                                                         *)
(* src/server-prod.js registers the same join-whiteboard (from the         *)
(* permission check on), drawing, cursor-move and disconnect handlers,     *)
(* line for line; its join takes the user id from the handshake instead    *)
(* of the payload's token. The actions below follow src/server.js.         *)
(***************************************************************************)
EXTENDS Integers, Sequences, FiniteSets, TLC

VARIABLES status, sock, rooms, pending, whiteboards, njoins, last, sent,
          dbUp, inq, nsent, seen, known

vars == <<status, sock, rooms, pending, whiteboards, njoins, last, sent,
          dbUp, inq, nsent, seen, known>>

\* what surrounds the server: whether the database answers lookups (dbUp), the
\* events each client has sent that its socket has not dispatched yet (inq),
\* how many events each client has sent (nsent), the number of the last
\* event of each sender that each client has received (seen), and the
\* connections each client has been told are present (known)
env == <<dbUp, inq, nsent, seen, known>>

(* ---------------------------- bounds ----------------------------------- *)

\* connections the transport ever opens
NumConns == 2

\* join-whiteboard requests ever received, over all connections
MaxJoins == 3

\* join-whiteboard handlers of one connection awaiting a lookup at the same time
MaxPending == 1

\* collaborator entries in an access record of the resolver specification
MaxCollab == 2

(* ---------------------------- universe --------------------------------- *)

Conns == 1..NumConns

\* the socket id of no connection
NoConn == 0

\* JavaScript undefined / null, for string-valued fields
NULL == "undefined"

\* accounts of the User collection, and an id no account has
Users == {"u1", "u2", "u3"}

GhostUser == "u9"

\* user.username of an account
Username(u) == CASE u = "u1" -> "alice"
                 [] u = "u2" -> "bob"
                 [] u = "u3" -> "carol"
                 [] OTHER -> NULL

\* whiteboard ids a client may name; "w0" is never stored
WbIds == {"w1", "w2", "w0"}

Permissions == {"view", "edit", "admin"}

\* the token field of a join payload: absent, not verifiable, or signed for a userId
NoToken == "none"

BadToken == "bad"

Tokens == {NoToken, BadToken} \cup Users \cup {GhostUser}

\* the join payloads { whiteboardId, token } the hub specification draws from:
\* every account on every stored whiteboard, and one payload per failure
JoinPayloads ==
  ({"w1", "w2"} \X Users)
  \cup {<<"w0", "u1">>, <<"w1", GhostUser>>, <<"w1", NoToken>>, <<"w2", BadToken>>}

\* identity fields a client may put in an event payload
NoData == [userId |-> NULL, username |-> NULL, socketId |-> NoConn]

Spoofed == [userId |-> "mallory", username |-> "mallory", socketId |-> 99]

ClientData == {NoData, Spoofed}

EditEvents == {"drawing", "drawing-start", "drawing-end", "sticky-note-add",
               "sticky-note-update", "sticky-note-delete", "undo", "redo"}

(* ---------------------------- database --------------------------------- *)

\* Whiteboard.findById(id) answering null
NoWhiteboard == [exists |-> FALSE, owner |-> NULL, collaborators |-> <<>>,
                 isPublic |-> FALSE]

\* a stored Whiteboard document, access fields only
Whiteboard(o, cs, p) == [exists |-> TRUE, owner |-> o, collaborators |-> cs,
                         isPublic |-> p]

\* the stored whiteboards the hub specification starts from
InitialBoards ==
  { [w \in WbIds |->
       CASE w = "w1" -> Whiteboard("u1", <<[user |-> "u2", permission |-> "edit"]>>, FALSE)
         [] w = "w2" -> Whiteboard("u2", <<[user |-> "u1", permission |-> "admin"],
                                           [user |-> "u3", permission |-> "view"]>>, FALSE)
         [] OTHER -> NoWhiteboard] }

(* ---------------------------- messages --------------------------------- *)

\* one delivered packet: the receiving connection, the event name, the payload fields
Msg(to, ev, f) ==
  [to |-> to, event |-> ev, message |-> f.message, whiteboardId |-> f.whiteboardId,
   userId |-> f.userId, username |-> f.username, userRole |-> f.userRole,
   socketId |-> f.socketId, users |-> f.users, yourRole |-> f.yourRole,
   canEdit |-> f.canEdit]

NoFields == [message |-> NULL, whiteboardId |-> NULL, userId |-> NULL,
             username |-> NULL, userRole |-> NULL, socketId |-> NoConn,
             users |-> {}, yourRole |-> NULL, canEdit |-> FALSE]

\* io.sockets.sockets: the sockets of the namespace
sockets(st) == {c \in Conns : st[c] = "open"}

\* socket.emit(ev, payload): dropped when the socket has closed
Emit(st, c, ev, f) == IF st[c] = "open" THEN {Msg(c, ev, f)} ELSE {}

\* mutant of EmitError: io.emit, the error goes to every socket of the namespace
EmitErrorToAll(st, c, text) ==
  {Msg(d, "error", [NoFields EXCEPT !.message = text]) : d \in sockets(st)}

\* socket.emit('error', { message })
EmitError(st, c, text) == Emit(st, c, "error", [NoFields EXCEPT !.message = text])

\* mutant of BroadcastTo: io.to(room).emit, the sender is not excepted
BroadcastToAll(st, rm, c, room, ev, f) ==
  IF room \in DOMAIN rm
  THEN {Msg(d, ev, f) : d \in {x \in rm[room] : x \in sockets(st)}}
  ELSE {}

\* socket.to(room).emit(ev, payload): the adapter's broadcast
BroadcastTo(st, rm, c, room, ev, f) ==
  IF room \in DOMAIN rm
  THEN {Msg(d, ev, f) : d \in {x \in rm[room] : x # c /\ x \in sockets(st)}}
  ELSE {}

(* ---------------------------- state ------------------------------------ *)

\* the fields the handlers keep on a socket object (src/server.js:104-108);
\* canEdit undefined is modelled as FALSE: the code only ever tests !socket.canEdit
NewSocket == [userId |-> NULL, username |-> NULL, userRole |-> NULL,
              canEdit |-> FALSE, whiteboardId |-> NULL]

\* what the handler that ran last was, and how it ended
Step(op, c, outcome, wid, uid) ==
  [op |-> op, conn |-> c, outcome |-> outcome, whiteboardId |-> wid, userId |-> uid]

Init ==
  /\ status = [c \in Conns |-> "idle"]
  /\ sock = [c \in Conns |-> NewSocket]
  /\ rooms = [w \in WbIds |-> {}]
  /\ pending = [c \in Conns |-> <<>>]
  /\ whiteboards \in InitialBoards
  /\ njoins = 0
  /\ last = Step("init", NoConn, "none", NULL, NULL)
  /\ sent = {}
  /\ dbUp = TRUE
  /\ inq = [c \in Conns |-> <<>>]
  /\ nsent = [c \in Conns |-> 0]
  /\ seen = [d \in Conns |-> [c \in Conns |-> 0]]
  /\ known = [d \in Conns |-> {}]

\* sequence s without its i-th element
RemoveAt(s, i) == [j \in 1..(Len(s) - 1) |-> IF j < i THEN s[j] ELSE s[j + 1]]

(* ---------------------------- connection ------------------------------- *)

\* io.on('connection'): a transport connects and its socket enters the namespace
Connection(c) ==
  /\ status[c] = "idle"
  /\ status' = [status EXCEPT ![c] = "open"]
  /\ last' = Step("connection", c, "none", NULL, NULL)
  /\ sent' = {}
  /\ UNCHANGED <<sock, rooms, pending, whiteboards, njoins>>

(* ---------------------------- join-whiteboard -------------------------- *)

\* mutant of JoinWhiteboard: socket.join(whiteboardId) runs before the lookups
JoinWhiteboardEager(c, wid, token) ==
  /\ status[c] = "open"
  /\ njoins < MaxJoins
  /\ Len(pending[c]) < MaxPending
  /\ njoins' = njoins + 1
  /\ IF token = NoToken
     THEN /\ sent' = EmitError(status, c, "Authentication required")
          /\ last' = Step("join-whiteboard", c, "no-token", wid, NULL)
          /\ UNCHANGED <<pending, rooms>>
     ELSE IF token = BadToken
     THEN /\ sent' = EmitError(status, c, "Failed to join whiteboard")
          /\ last' = Step("join-whiteboard", c, "exception", wid, NULL)
          /\ UNCHANGED <<pending, rooms>>
     ELSE /\ pending' = [pending EXCEPT ![c] =
                 Append(@, [pc |-> "User.findById", whiteboardId |-> wid,
                            userId |-> token])]
          /\ rooms' = [rooms EXCEPT ![wid] = @ \cup {c}]
          /\ sent' = {}
          /\ last' = Step("join-whiteboard", c, "await", wid, token)
  /\ UNCHANGED <<status, sock, whiteboards>>

\* the join handler up to its first await: the token checks; at most inFlight
\* handlers of one connection await a lookup at a time
JoinRequest(c, wid, token, inFlight) ==
  /\ status[c] = "open"
  /\ njoins < MaxJoins
  /\ Len(pending[c]) < inFlight
  /\ njoins' = njoins + 1
  /\ IF token = NoToken
     THEN /\ sent' = EmitError(status, c, "Authentication required")
          /\ last' = Step("join-whiteboard", c, "no-token", wid, NULL)
          /\ UNCHANGED pending
     ELSE IF token = BadToken
     THEN /\ sent' = EmitError(status, c, "Failed to join whiteboard")
          /\ last' = Step("join-whiteboard", c, "exception", wid, NULL)
          /\ UNCHANGED pending
     ELSE /\ pending' = [pending EXCEPT ![c] =
                 Append(@, [pc |-> "User.findById", whiteboardId |-> wid,
                            userId |-> token])]
          /\ sent' = {}
          /\ last' = Step("join-whiteboard", c, "await", wid, token)
  /\ UNCHANGED <<status, sock, rooms, whiteboards>>

\* socket.on('join-whiteboard')
JoinWhiteboard(c, wid, token) == JoinRequest(c, wid, token, MaxPending)

\* mutant of JoinUserFound: an unknown user ends the session of the socket
JoinUserFoundResets(c, i, fails) ==
  /\ i \in DOMAIN pending[c]
  /\ pending[c][i].pc = "User.findById"
  /\ LET p == pending[c][i] IN
     IF fails
     THEN /\ sent' = EmitError(status, c, "Failed to join whiteboard")
          /\ last' = Step("join-whiteboard", c, "exception", p.whiteboardId, p.userId)
          /\ pending' = [pending EXCEPT ![c] = RemoveAt(@, i)]
          /\ UNCHANGED sock
     ELSE IF p.userId \notin Users
     THEN /\ sent' = EmitError(status, c, "User not found")
          /\ last' = Step("join-whiteboard", c, "user-not-found", p.whiteboardId, p.userId)
          /\ pending' = [pending EXCEPT ![c] = RemoveAt(@, i)]
          /\ sock' = [sock EXCEPT ![c] = NewSocket]
     ELSE /\ sent' = {}
          /\ last' = Step("join-whiteboard", c, "await", p.whiteboardId, p.userId)
          /\ pending' = [pending EXCEPT ![c][i].pc = "Whiteboard.findById"]
          /\ UNCHANGED sock
  /\ UNCHANGED <<status, rooms, whiteboards, njoins>>

\* the handler resumes from await User.findById(decoded.userId)
JoinUserFound(c, i, fails) ==
  /\ i \in DOMAIN pending[c]
  /\ pending[c][i].pc = "User.findById"
  /\ LET p == pending[c][i] IN
     IF fails
     THEN /\ sent' = EmitError(status, c, "Failed to join whiteboard")
          /\ last' = Step("join-whiteboard", c, "exception", p.whiteboardId, p.userId)
          /\ pending' = [pending EXCEPT ![c] = RemoveAt(@, i)]
     ELSE IF p.userId \notin Users
     THEN /\ sent' = EmitError(status, c, "User not found")
          /\ last' = Step("join-whiteboard", c, "user-not-found", p.whiteboardId, p.userId)
          /\ pending' = [pending EXCEPT ![c] = RemoveAt(@, i)]
     ELSE /\ sent' = {}
          /\ last' = Step("join-whiteboard", c, "await", p.whiteboardId, p.userId)
          /\ pending' = [pending EXCEPT ![c][i].pc = "Whiteboard.findById"]
  /\ UNCHANGED <<status, sock, rooms, whiteboards, njoins>>

\* whiteboard.collaborators.find(collab => collab.user._id === user._id):
\* the index of the first entry of the user, 0 when there is none
FindCollaborator(cs, uid) ==
  IF \E k \in DOMAIN cs : cs[k].user = uid
  THEN CHOOSE k \in DOMAIN cs :
         /\ cs[k].user = uid
         /\ \A j \in DOMAIN cs : cs[j].user = uid => k <= j
  ELSE 0

\* mutant of JoinPermission: the public flag is looked at before the collaborators
JoinPermissionPublicFirst(whiteboard, uid) ==
  IF whiteboard.owner = uid
  THEN [ok |-> TRUE, userRole |-> "owner", canEdit |-> TRUE]
  ELSE LET k == FindCollaborator(whiteboard.collaborators, uid) IN
       IF whiteboard.isPublic
       THEN [ok |-> TRUE, userRole |-> "viewer", canEdit |-> FALSE]
       ELSE IF k # 0
       THEN [ok |-> TRUE, userRole |-> whiteboard.collaborators[k].permission,
             canEdit |-> whiteboard.collaborators[k].permission \in {"edit", "admin"}]
       ELSE [ok |-> FALSE, userRole |-> "viewer", canEdit |-> FALSE]

\* the permission check of the join handler
JoinPermission(whiteboard, uid) ==
  IF whiteboard.owner = uid
  THEN [ok |-> TRUE, userRole |-> "owner", canEdit |-> TRUE]
  ELSE LET k == FindCollaborator(whiteboard.collaborators, uid) IN
       IF k # 0
       THEN [ok |-> TRUE, userRole |-> whiteboard.collaborators[k].permission,
             canEdit |-> whiteboard.collaborators[k].permission \in {"edit", "admin"}]
       ELSE IF whiteboard.isPublic
       THEN [ok |-> TRUE, userRole |-> "viewer", canEdit |-> FALSE]
       ELSE [ok |-> FALSE, userRole |-> "viewer", canEdit |-> FALSE]

\* mutant of SocketJoin: the room's set is replaced instead of extended
SocketJoinOverwrite(st, rm, c, room) ==
  IF st[c] = "open" THEN [rm EXCEPT ![room] = {c}] ELSE rm

\* socket.join(room): a no-op once the socket has closed
SocketJoin(st, rm, c, room) ==
  IF st[c] = "open" THEN [rm EXCEPT ![room] = @ \cup {c}] ELSE rm

\* mutant of usersInRoom: the adapter has no such room and the list is empty
usersInRoomEmpty(st, rm, sk, room) == {}

\* the usersInRoom list of room-info: the room's sockets still in the namespace
usersInRoom(st, rm, sk, room) ==
  {[socketId |-> d, username |-> sk[d].username, userRole |-> sk[d].userRole] :
     d \in {x \in rm[room] : x \in sockets(st)}}

\* mutant of JoinWhiteboardFound: a canEdit once cached is kept by a later join
JoinWhiteboardFoundKeepsEdit(c, i, fails) ==
  /\ i \in DOMAIN pending[c]
  /\ pending[c][i].pc = "Whiteboard.findById"
  /\ pending' = [pending EXCEPT ![c] = RemoveAt(@, i)]
  /\ LET p == pending[c][i]
         wid == p.whiteboardId
         whiteboard == whiteboards[wid]
         perm == JoinPermission(whiteboard, p.userId)
     IN
     IF fails
     THEN /\ sent' = EmitError(status, c, "Failed to join whiteboard")
          /\ last' = Step("join-whiteboard", c, "exception", wid, p.userId)
          /\ UNCHANGED <<sock, rooms>>
     ELSE IF ~whiteboard.exists
     THEN /\ sent' = EmitError(status, c, "Whiteboard not found")
          /\ last' = Step("join-whiteboard", c, "whiteboard-not-found", wid, p.userId)
          /\ UNCHANGED <<sock, rooms>>
     ELSE IF ~perm.ok
     THEN /\ sent' = EmitError(status, c, "Access denied")
          /\ last' = Step("join-whiteboard", c, "access-denied", wid, p.userId)
          /\ UNCHANGED <<sock, rooms>>
     ELSE /\ rooms' = SocketJoin(status, rooms, c, wid)
          /\ sock' = [sock EXCEPT ![c] =
                 [userId |-> p.userId, username |-> Username(p.userId),
                  userRole |-> perm.userRole,
                  canEdit |-> (sock[c].canEdit \/ perm.canEdit),
                  whiteboardId |-> wid]]
          /\ sent' =
               BroadcastTo(status, rooms', c, wid, "user-joined",
                 [NoFields EXCEPT !.userId = p.userId,
                                  !.username = Username(p.userId),
                                  !.userRole = perm.userRole,
                                  !.socketId = c])
               \cup
               Emit(status, c, "room-info",
                 [NoFields EXCEPT !.whiteboardId = wid,
                                  !.users = usersInRoom(status, rooms', sock', wid),
                                  !.yourRole = perm.userRole,
                                  !.canEdit = perm.canEdit])
          /\ last' = Step("join-whiteboard", c, "joined", wid, p.userId)
  /\ UNCHANGED <<status, whiteboards, njoins>>

\* the handler resumes from await Whiteboard.findById(whiteboardId) and runs to its end
JoinWhiteboardFound(c, i, fails) ==
  /\ i \in DOMAIN pending[c]
  /\ pending[c][i].pc = "Whiteboard.findById"
  /\ pending' = [pending EXCEPT ![c] = RemoveAt(@, i)]
  /\ LET p == pending[c][i]
         wid == p.whiteboardId
         whiteboard == whiteboards[wid]
         perm == JoinPermission(whiteboard, p.userId)
     IN
     IF fails
     THEN /\ sent' = EmitError(status, c, "Failed to join whiteboard")
          /\ last' = Step("join-whiteboard", c, "exception", wid, p.userId)
          /\ UNCHANGED <<sock, rooms>>
     ELSE IF ~whiteboard.exists
     THEN /\ sent' = EmitError(status, c, "Whiteboard not found")
          /\ last' = Step("join-whiteboard", c, "whiteboard-not-found", wid, p.userId)
          /\ UNCHANGED <<sock, rooms>>
     ELSE IF ~perm.ok
     THEN /\ sent' = EmitError(status, c, "Access denied")
          /\ last' = Step("join-whiteboard", c, "access-denied", wid, p.userId)
          /\ UNCHANGED <<sock, rooms>>
     ELSE /\ rooms' = SocketJoin(status, rooms, c, wid)
          /\ sock' = [sock EXCEPT ![c] =
                 [userId |-> p.userId, username |-> Username(p.userId),
                  userRole |-> perm.userRole, canEdit |-> perm.canEdit,
                  whiteboardId |-> wid]]
          /\ sent' =
               BroadcastTo(status, rooms', c, wid, "user-joined",
                 [NoFields EXCEPT !.userId = p.userId,
                                  !.username = Username(p.userId),
                                  !.userRole = perm.userRole,
                                  !.socketId = c])
               \cup
               Emit(status, c, "room-info",
                 [NoFields EXCEPT !.whiteboardId = wid,
                                  !.users = usersInRoom(status, rooms', sock', wid),
                                  !.yourRole = perm.userRole,
                                  !.canEdit = perm.canEdit])
          /\ last' = Step("join-whiteboard", c, "joined", wid, p.userId)
  /\ UNCHANGED <<status, whiteboards, njoins>>

(* ---------------------------- relays ----------------------------------- *)

\* { ...data, userId: socket.userId, username: socket.username }
Attributed(sk, c, data) ==
  [NoFields EXCEPT !.userId = sk[c].userId, !.username = sk[c].username,
                   !.socketId = data.socketId]

\* mutant of EditGated: the return after the error is missing
EditGatedNoReturn(c, ev, text, data) ==
  /\ status[c] = "open"
  /\ sent' = (IF ~sock[c].canEdit THEN EmitError(status, c, text) ELSE {})
             \cup BroadcastTo(status, rooms, c, sock[c].whiteboardId, ev,
                              Attributed(sock, c, data))
  /\ last' = Step(ev, c, "relayed", sock[c].whiteboardId, sock[c].userId)
  /\ UNCHANGED <<status, sock, rooms, pending, whiteboards, njoins>>

\* mutant of EditGated: the gate reads the stored access record again
EditGatedFresh(c, ev, text, data) ==
  /\ status[c] = "open"
  /\ IF \/ sock[c].whiteboardId = NULL
        \/ ~JoinPermission(whiteboards[sock[c].whiteboardId], sock[c].userId).canEdit
     THEN /\ sent' = EmitError(status, c, text)
          /\ last' = Step(ev, c, "denied", sock[c].whiteboardId, sock[c].userId)
     ELSE /\ sent' = BroadcastTo(status, rooms, c, sock[c].whiteboardId, ev,
                                 Attributed(sock, c, data))
          /\ last' = Step(ev, c, "relayed", sock[c].whiteboardId, sock[c].userId)
  /\ UNCHANGED <<status, sock, rooms, pending, whiteboards, njoins>>

\* the body shared by the eight edit-gated handlers
EditGated(c, ev, text, data) ==
  /\ status[c] = "open"
  /\ IF ~sock[c].canEdit
     THEN /\ sent' = EmitError(status, c, text)
          /\ last' = Step(ev, c, "denied", sock[c].whiteboardId, sock[c].userId)
     ELSE /\ sent' = BroadcastTo(status, rooms, c, sock[c].whiteboardId, ev,
                                 Attributed(sock, c, data))
          /\ last' = Step(ev, c, "relayed", sock[c].whiteboardId, sock[c].userId)
  /\ UNCHANGED <<status, sock, rooms, pending, whiteboards, njoins>>

Drawing(c, data) ==
  EditGated(c, "drawing", "You do not have permission to draw", data)

DrawingStart(c, data) ==
  EditGated(c, "drawing-start", "You do not have permission to draw", data)

DrawingEnd(c, data) ==
  EditGated(c, "drawing-end", "You do not have permission to draw", data)

StickyNoteAdd(c, data) ==
  EditGated(c, "sticky-note-add", "You do not have permission to add sticky notes", data)

StickyNoteUpdate(c, data) ==
  EditGated(c, "sticky-note-update", "You do not have permission to edit sticky notes", data)

StickyNoteDelete(c, data) ==
  EditGated(c, "sticky-note-delete", "You do not have permission to delete sticky notes", data)

Undo(c, data) ==
  EditGated(c, "undo", "You do not have permission to perform this action", data)

Redo(c, data) ==
  EditGated(c, "redo", "You do not have permission to perform this action", data)

\* mutant of ClearBoard: the gate is canEdit instead of the role
ClearBoardEditGate(c, data) ==
  /\ status[c] = "open"
  /\ IF ~sock[c].canEdit
     THEN /\ sent' = EmitError(status, c, "You do not have permission to clear the board")
          /\ last' = Step("clear-board", c, "denied", sock[c].whiteboardId, sock[c].userId)
     ELSE /\ sent' = BroadcastTo(status, rooms, c, sock[c].whiteboardId, "clear-board",
                                 Attributed(sock, c, data))
          /\ last' = Step("clear-board", c, "relayed", sock[c].whiteboardId, sock[c].userId)
  /\ UNCHANGED <<status, sock, rooms, pending, whiteboards, njoins>>

\* socket.on('clear-board')
ClearBoard(c, data) ==
  /\ status[c] = "open"
  /\ IF sock[c].userRole # "owner" /\ sock[c].userRole # "admin"
     THEN /\ sent' = EmitError(status, c, "You do not have permission to clear the board")
          /\ last' = Step("clear-board", c, "denied", sock[c].whiteboardId, sock[c].userId)
     ELSE /\ sent' = BroadcastTo(status, rooms, c, sock[c].whiteboardId, "clear-board",
                                 Attributed(sock, c, data))
          /\ last' = Step("clear-board", c, "relayed", sock[c].whiteboardId, sock[c].userId)
  /\ UNCHANGED <<status, sock, rooms, pending, whiteboards, njoins>>

\* mutant of CursorMove: the handler is gated on canEdit like an edit-gated one
CursorMoveEditGate(c, data) ==
  /\ status[c] = "open"
  /\ IF sock[c].whiteboardId # NULL /\ sock[c].canEdit
     THEN /\ sent' = BroadcastTo(status, rooms, c, sock[c].whiteboardId, "cursor-move",
                                 [Attributed(sock, c, data) EXCEPT !.socketId = c])
          /\ last' = Step("cursor-move", c, "relayed", sock[c].whiteboardId, sock[c].userId)
     ELSE /\ sent' = {}
          /\ last' = Step("cursor-move", c, "ignored", sock[c].whiteboardId, sock[c].userId)
  /\ UNCHANGED <<status, sock, rooms, pending, whiteboards, njoins>>

\* socket.on('cursor-move')
CursorMove(c, data) ==
  /\ status[c] = "open"
  /\ IF sock[c].whiteboardId # NULL
     THEN /\ sent' = BroadcastTo(status, rooms, c, sock[c].whiteboardId, "cursor-move",
                                 [Attributed(sock, c, data) EXCEPT !.socketId = c])
          /\ last' = Step("cursor-move", c, "relayed", sock[c].whiteboardId, sock[c].userId)
     ELSE /\ sent' = {}
          /\ last' = Step("cursor-move", c, "ignored", sock[c].whiteboardId, sock[c].userId)
  /\ UNCHANGED <<status, sock, rooms, pending, whiteboards, njoins>>

(* ---------------------------- disconnect ------------------------------- *)

\* socket.leaveAll() of the closing socket
LeaveAll(rm, c) == [w \in DOMAIN rm |-> rm[w] \ {c}]

\* the transport closes: the socket leaves its rooms and the namespace, then
\* socket.on('disconnect') runs
Disconnect(c) ==
  /\ status[c] = "open"
  /\ status' = [status EXCEPT ![c] = "closed"]
  /\ rooms' = LeaveAll(rooms, c)
  /\ IF sock[c].whiteboardId # NULL
     THEN sent' = BroadcastTo(status', rooms', c, sock[c].whiteboardId, "user-left",
                    [NoFields EXCEPT !.userId = sock[c].userId,
                                     !.username = sock[c].username,
                                     !.socketId = c])
     ELSE sent' = {}
  /\ last' = Step("disconnect", c, "none", sock[c].whiteboardId, sock[c].userId)
  /\ UNCHANGED <<sock, pending, whiteboards, njoins>>

(* ---------------------------- specification ---------------------------- *)

Next ==
  \/ \E c \in Conns : Connection(c) /\ UNCHANGED env
  \/ \E c \in Conns, d \in JoinPayloads : JoinWhiteboard(c, d[1], d[2]) /\ UNCHANGED env
  \/ \E c \in Conns, i \in 1..MaxPending, fails \in BOOLEAN : JoinUserFound(c, i, fails) /\ UNCHANGED env
  \/ \E c \in Conns, i \in 1..MaxPending, fails \in BOOLEAN : JoinWhiteboardFound(c, i, fails) /\ UNCHANGED env
  \/ \E c \in Conns, data \in ClientData : Drawing(c, data) /\ UNCHANGED env
  \/ \E c \in Conns, data \in ClientData : DrawingStart(c, data) /\ UNCHANGED env
  \/ \E c \in Conns, data \in ClientData : DrawingEnd(c, data) /\ UNCHANGED env
  \/ \E c \in Conns, data \in ClientData : StickyNoteAdd(c, data) /\ UNCHANGED env
  \/ \E c \in Conns, data \in ClientData : StickyNoteUpdate(c, data) /\ UNCHANGED env
  \/ \E c \in Conns, data \in ClientData : StickyNoteDelete(c, data) /\ UNCHANGED env
  \/ \E c \in Conns, data \in ClientData : Undo(c, data) /\ UNCHANGED env
  \/ \E c \in Conns, data \in ClientData : Redo(c, data) /\ UNCHANGED env
  \/ \E c \in Conns, data \in ClientData : ClearBoard(c, data) /\ UNCHANGED env
  \/ \E c \in Conns, data \in ClientData : CursorMove(c, data) /\ UNCHANGED env
  \/ \E c \in Conns : Disconnect(c) /\ UNCHANGED env

Spec == Init /\ [][Next]_vars

(* ---------------------------- observations ----------------------------- *)

\* the connections that received event ev in the step that ran last
Recipients(ev) == {m.to : m \in {x \in sent : x.event = ev}}

\* the packets of event ev delivered to connection d in the step that ran last
Delivered(d, ev) == {m \in sent : m.to = d /\ m.event = ev}

\* the step that ran last ended a join-whiteboard request with an error
JoinFailed ==
  /\ last.op = "join-whiteboard"
  /\ last.outcome \in {"no-token", "exception", "user-not-found",
                       "whiteboard-not-found", "access-denied"}

\* the step that ran last completed a join-whiteboard request
JoinSucceeded == last.op = "join-whiteboard" /\ last.outcome = "joined"

(* ---------------------------- C1 --------------------------------------- *)

\* C1: the member set of every room is exactly the set of open connections whose
\* latest successful join was to that room: no closed connection and no
\* connection whose current room is another one is in it.
C1_MembersExact ==
  \A w \in WbIds :
    rooms[w] = {c \in Conns : status[c] = "open" /\ sock[c].whiteboardId = w}

(* ---------------------------- C2 --------------------------------------- *)

\* C2: every connection is in the member set of at most one room, and that room
\* is the one recorded in socket.whiteboardId.
C2_AtMostOneRoom ==
  \A c \in Conns :
    /\ Cardinality({w \in WbIds : c \in rooms[w]}) <= 1
    /\ \A w \in WbIds : c \in rooms[w] => sock[c].whiteboardId = w

(* ---------------------------- C3 --------------------------------------- *)

\* C3: an edit-gated event from a connection whose cached canEdit is false reaches
\* no other connection, and the sender receives exactly one error.
C3_EditDenied ==
  (last.op \in EditEvents /\ ~sock[last.conn].canEdit) =>
    /\ Cardinality(sent) = 1
    /\ \A m \in sent : m.to = last.conn /\ m.event = "error"

\* a view-only member of a room with another member sent an edit-gated event
C3_Witness ==
  /\ last.op \in EditEvents
  /\ ~sock[last.conn].canEdit
  /\ sock[last.conn].whiteboardId # NULL
  /\ rooms[sock[last.conn].whiteboardId] \ {last.conn} # {}

(* ---------------------------- C4 --------------------------------------- *)

\* C4: clear-board is relayed to the other members of the sender's room iff the
\* sender's cached role is owner or admin; otherwise nobody receives it and the
\* sender alone receives one error.
C4_ClearBoardGate ==
  last.op = "clear-board" =>
    LET c == last.conn IN
    IF sock[c].userRole \in {"owner", "admin"}
    THEN /\ \A m \in sent : m.event = "clear-board"
         /\ Recipients("clear-board") = rooms[sock[c].whiteboardId] \ {c}
         /\ \A d \in Conns : Cardinality(Delivered(d, "clear-board")) <= 1
    ELSE /\ Cardinality(sent) = 1
         /\ \A m \in sent : m.to = c /\ m.event = "error"

\* an admin cleared a board that another member is on
C4_Witness ==
  /\ last.op = "clear-board"
  /\ sock[last.conn].userRole = "admin"
  /\ Recipients("clear-board") # {}

(* ---------------------------- C5 --------------------------------------- *)

\* the collaborator lists of at most n entries
RECURSIVE CollaboratorLists(_)
CollaboratorLists(n) ==
  IF n = 0 THEN {<<>>}
  ELSE LET shorter == CollaboratorLists(n - 1) IN
       shorter \cup
       {Append(cs, [user |-> u, permission |-> p]) :
          cs \in {x \in shorter : Len(x) = n - 1}, u \in Users, p \in Permissions}

\* every access record over the accounts, with at most MaxCollab collaborator entries
AccessRecords ==
  {Whiteboard(o, cs, p) :
     o \in Users, cs \in CollaboratorLists(MaxCollab), p \in BOOLEAN}

\* the resolver specification: whiteboard w1 holds any access record, and one
\* connection joins it as any account, again and again
InitResolver ==
  /\ status = [c \in Conns |-> "idle"]
  /\ sock = [c \in Conns |-> NewSocket]
  /\ rooms = [w \in WbIds |-> {}]
  /\ pending = [c \in Conns |-> <<>>]
  /\ whiteboards \in {[w \in WbIds |-> IF w = "w1" THEN r ELSE NoWhiteboard] :
                        r \in AccessRecords}
  /\ njoins = 0
  /\ last = Step("init", NoConn, "none", NULL, NULL)
  /\ sent = {}
  /\ dbUp = TRUE
  /\ inq = [c \in Conns |-> <<>>]
  /\ nsent = [c \in Conns |-> 0]
  /\ seen = [d \in Conns |-> [c \in Conns |-> 0]]
  /\ known = [d \in Conns |-> {}]

NextResolver ==
  \/ Connection(1) /\ UNCHANGED env
  \/ \E u \in Users : JoinWhiteboard(1, "w1", u) /\ UNCHANGED env
  \/ JoinUserFound(1, 1, FALSE) /\ UNCHANGED env
  \/ JoinWhiteboardFound(1, 1, FALSE) /\ UNCHANGED env

SpecResolver == InitResolver /\ [][NextResolver]_vars

\* the entries of user uid in a collaborator list
EntriesOf(cs, uid) == {k \in DOMAIN cs : cs[k].user = uid}

\* the permission level of the first entry of uid
LevelOf(cs, uid) ==
  cs[CHOOSE k \in EntriesOf(cs, uid) : \A j \in EntriesOf(cs, uid) : k <= j].permission

\* the reference resolver: owner > collaborator level > public > denied, where
\* publicRole is the role a public whiteboard gives to a stranger
Resolve(record, uid, publicRole) ==
  CASE record.owner = uid ->
         [denied |-> FALSE, role |-> "owner", canEdit |-> TRUE]
    [] record.owner # uid /\ EntriesOf(record.collaborators, uid) # {} ->
         [denied |-> FALSE, role |-> LevelOf(record.collaborators, uid),
          canEdit |-> LevelOf(record.collaborators, uid) \in {"edit", "admin"}]
    [] record.owner # uid /\ EntriesOf(record.collaborators, uid) = {}
       /\ record.isPublic ->
         [denied |-> FALSE, role |-> publicRole, canEdit |-> FALSE]
    [] OTHER ->
         [denied |-> TRUE, role |-> NULL, canEdit |-> FALSE]

\* the join that ended last agrees with the reference resolver: it was denied iff
\* the resolver denies, and otherwise the cached role and canEdit and the
\* yourRole and canEdit of room-info are the resolver's
AgreesWith(publicRole) ==
  (last.op = "join-whiteboard" /\ last.outcome \in {"joined", "access-denied"}) =>
    LET ref == Resolve(whiteboards[last.whiteboardId], last.userId, publicRole) IN
    /\ ref.denied <=> last.outcome = "access-denied"
    /\ last.outcome = "joined" =>
         /\ sock[last.conn].userRole = ref.role
         /\ sock[last.conn].canEdit = ref.canEdit
         /\ \A m \in Delivered(last.conn, "room-info") :
              m.yourRole = ref.role /\ m.canEdit = ref.canEdit

NothingButError ==
  /\ \A m \in sent' : m.event = "error" /\ m.to = last'.conn
  /\ last'.conn \in rooms'[last'.whiteboardId] => last'.conn \in rooms[last'.whiteboardId]

\* C6 as stated: whenever a join-whiteboard request fails, the joiner receives
\* exactly one error, no room-info and no user-joined is sent, and the joiner is
\* not added to the requested room.
C6_FailedJoinAsStated ==
  [][JoinFailed' => (Cardinality(sent') = 1 /\ NothingButError)]_vars

\* C6 amended: the same, where the joiner receives the one error if its connection
\* is still open when the failure is detected, and nothing if it has closed.
C6_FailedJoin ==
  [][JoinFailed' =>
       /\ Cardinality(sent') = (IF status[last'.conn] = "open" THEN 1 ELSE 0)
       /\ NothingButError]_vars

\* an account with no standing on a private whiteboard was denied while another
\* connection is a member of that whiteboard's room
C6_Witness ==
  /\ JoinFailed
  /\ last.outcome = "access-denied"
  /\ Recipients("error") = {last.conn}
  /\ rooms[last.whiteboardId] \ {last.conn} # {}

(* ---------------------------- C7 --------------------------------------- *)

\* the entry of connection d in the member list of a room-info
MemberEntry(d) ==
  [socketId |-> d, username |-> sock[d].username, userRole |-> sock[d].userRole]

\* C7: on every successful join the joiner, now a member, receives one room-info
\* listing the room's members with their usernames and roles and carrying its own
\* role and canEdit, and exactly the other members of the room receive one
\* user-joined with the joiner's user id, username, role and connection id.
C7_JoinChoreography ==
  JoinSucceeded =>
    LET c == last.conn
        w == last.whiteboardId
    IN
    /\ c \in rooms[w]
    /\ Cardinality(Delivered(c, "room-info")) = 1
    /\ \A m \in Delivered(c, "room-info") :
         /\ m.users = {MemberEntry(d) : d \in rooms[w]}
         /\ m.yourRole = sock[c].userRole
         /\ m.canEdit = sock[c].canEdit
    /\ Recipients("user-joined") = rooms[w] \ {c}
    /\ \A d \in Conns :
         /\ Cardinality(Delivered(d, "user-joined")) <= 1
         /\ \A m \in Delivered(d, "user-joined") :
              /\ m.userId = sock[c].userId
              /\ m.username = sock[c].username
              /\ m.userRole = sock[c].userRole
              /\ m.socketId = c

(* ---------------------------- C8 --------------------------------------- *)

\* C8: whenever a connection that is a member of a room disconnects, it is removed
\* from that room's member set and every remaining member of that room receives
\* exactly one user-left carrying its user id, username and connection id; no
\* room-info lists a closed connection.
C8_DisconnectCleanup ==
  /\ [][\A c \in Conns : (status[c] = "open" /\ status'[c] = "closed") =>
          \A w \in WbIds : c \in rooms[w] =>
            /\ c \notin rooms'[w]
            /\ \A d \in rooms'[w] :
                 /\ Cardinality(Delivered(d, "user-left")') = 1
                 /\ \A m \in Delivered(d, "user-left")' :
                      /\ m.userId = sock[c].userId
                      /\ m.username = sock[c].username
                      /\ m.socketId = c]_vars
  /\ [](\A m \in sent : m.event = "room-info" =>
          \A u \in m.users : status[u.socketId] = "open")

(* ---------------------------- C9 --------------------------------------- *)

\* C9: when a member of room A successfully joins another room B, it is evicted
\* from A's member set and the remaining members of A receive a user-left for it.
C9_RejoinMigrates ==
  [][\A c \in Conns :
       LET a == sock[c].whiteboardId IN
       (/\ JoinSucceeded'
        /\ last'.conn = c
        /\ a # NULL
        /\ a # last'.whiteboardId
        /\ c \in rooms[a]) =>
         /\ c \notin rooms'[a]
         /\ Recipients("user-left")' = rooms'[a] \ {c}]_vars

(* ---------------------------- C10 -------------------------------------- *)

\* the event the step that ran last broadcasts, NULL when it broadcasts nothing
BroadcastEvent ==
  IF JoinSucceeded THEN "user-joined"
  ELSE IF last.op = "disconnect" /\ sock[last.conn].whiteboardId # NULL THEN "user-left"
  ELSE IF last.outcome = "relayed" THEN last.op
  ELSE NULL

\* C10: the connection that caused a broadcast (user-joined, user-left, a relayed
\* edit-gated event, clear-board, cursor-move) is never among its recipients, and
\* the recipients are exactly the other members of the sender's current room.
C10_SelfExclusion ==
  /\ \A m \in sent :
       m.event \notin {"error", "room-info"} =>
         m.event = BroadcastEvent /\ m.to # last.conn
  /\ BroadcastEvent # NULL =>
       Recipients(BroadcastEvent) = rooms[sock[last.conn].whiteboardId] \ {last.conn}

\* an editor relayed an edit-gated event while being a member of its room with
\* another member, who received it
C10_Witness ==
  /\ last.op \in EditEvents
  /\ last.outcome = "relayed"
  /\ last.conn \in rooms[sock[last.conn].whiteboardId]
  /\ Recipients(last.op) # {}
  /\ last.conn \notin Recipients(last.op)

(* ---------------------------- C11 -------------------------------------- *)

RelayedEvents == EditEvents \cup {"clear-board", "cursor-move"}

\* C11: every relayed event (edit-gated, clear-board, cursor-move) carries the
\* sender's connection id, user id and display name taken from its socket, so
\* that no client-supplied value of these three fields reaches a receiver.
C11_Attribution ==
  \A m \in sent :
    m.event \in RelayedEvents =>
      /\ m.socketId = last.conn
      /\ m.userId = sock[last.conn].userId
      /\ m.username = sock[last.conn].username

(* ---------------------------- C12 -------------------------------------- *)

\* C12: cursor-move is relayed to the other members of the sender's room iff the
\* sender belongs to a room, whatever its canEdit and role; from a connection
\* that has joined no room nobody receives anything.
C12_CursorMove ==
  last.op = "cursor-move" =>
    LET c == last.conn IN
    IF \E w \in WbIds : c \in rooms[w]
    THEN /\ \A m \in sent : m.event = "cursor-move"
         /\ Recipients("cursor-move") = rooms[sock[c].whiteboardId] \ {c}
         /\ \A d \in Conns : Cardinality(Delivered(d, "cursor-move")) <= 1
    ELSE sent = {}

\* a member with role view and canEdit false moved its cursor and another member
\* received it
C12_Witness ==
  /\ last.op = "cursor-move"
  /\ sock[last.conn].userRole = "view"
  /\ ~sock[last.conn].canEdit
  /\ Recipients("cursor-move") # {}

(* ---------------------------- C13 -------------------------------------- *)

\* C13: there is no zombie member: no closed connection is in a member set, and
\* no user-joined is sent for a connection that has already closed (its
\* disconnect handler has run by then, so no user-left can follow the notice).
C13_NoZombie ==
  /\ \A w \in WbIds : \A c \in rooms[w] : status[c] = "open"
  /\ \A m \in sent : m.event = "user-joined" => status[m.socketId] = "open"

(* ---------------------------- C14 -------------------------------------- *)

\* connection c has never joined and a join-whiteboard handler of it awaits a lookup
AwaitingFirstJoin(c) == pending[c] # <<>> /\ sock[c].whiteboardId = NULL

\* C14: while the first join-whiteboard request of a connection awaits a lookup,
\* the connection is in no member set and nothing another connection causes is
\* delivered to it.
C14_NotYetMember ==
  \A c \in Conns :
    AwaitingFirstJoin(c) =>
      /\ \A w \in WbIds : c \notin rooms[w]
      /\ \A m \in sent : m.to = c => last.conn = c

\* a member relayed an event in the room that another connection's first join,
\* still awaiting the whiteboard lookup, asks for
C14_Witness ==
  \E c \in Conns :
    /\ AwaitingFirstJoin(c)
    /\ pending[c][1].pc = "Whiteboard.findById"
    /\ last.conn # c
    /\ last.outcome = "relayed"
    /\ sock[last.conn].whiteboardId = pending[c][1].whiteboardId

(* ---------------------------- C16 -------------------------------------- *)

\* C16: once the user id and display name of a connection are resolved, no step
\* changes them, whatever join-whiteboard requests follow.
C16_IdentityFixed ==
  [][\A c \in Conns :
       sock[c].userId # NULL =>
         /\ sock'[c].userId = sock[c].userId
         /\ sock'[c].username = sock[c].username]_vars

(* ---------------------------- C18 -------------------------------------- *)

\* C18: no join is lost: every open connection whose join-whiteboard succeeded
\* is in the member set of the room it joined last, however the join handlers
\* and the disconnects of other members interleave.
C18_NoJoinLost ==
  \A c \in Conns :
    (status[c] = "open" /\ sock[c].whiteboardId # NULL) =>
      c \in rooms[sock[c].whiteboardId]

\* a join completes in a room that already holds the other connection, and both
\* are members
C18_Witness ==
  /\ JoinSucceeded
  /\ status[last.conn] = "open"
  /\ rooms[last.whiteboardId] = Conns

(* ---------------------------- src/server-prod.js ------------------------ *)

\* the role claim of a handshake token: absent, or what the issuer signed
TokenRoles == {NULL, "admin"}

\* the whiteboardId of a join-whiteboard payload of the production server
ProdWbIds == WbIds \cup {NULL}

\* io.use(...) followed by io.on('connection'): the handshake middleware verifies
\* socket.handshake.auth.token and keeps the token's userId and role on the
\* socket; a rejected handshake leaves no socket behind
ProdHandshake(c, token, role) ==
  /\ status[c] = "idle"
  /\ IF token = NoToken \/ token = BadToken
     THEN /\ last' = Step("handshake", c, "rejected", NULL, NULL)
          /\ UNCHANGED <<status, sock>>
     ELSE /\ status' = [status EXCEPT ![c] = "open"]
          /\ sock' = [sock EXCEPT ![c].userId = token, ![c].userRole = role]
          /\ last' = Step("handshake", c, "accepted", NULL, token)
  /\ sent' = {}
  /\ UNCHANGED <<rooms, pending, whiteboards, njoins>>

\* the production join handler up to its first await: the user is the one of the
\* handshake, the payload holds the whiteboardId only
ProdJoinWhiteboard(c, wid) ==
  /\ status[c] = "open"
  /\ njoins < MaxJoins
  /\ Len(pending[c]) < MaxPending
  /\ njoins' = njoins + 1
  /\ IF wid = NULL
     THEN /\ sent' = EmitError(status, c, "Whiteboard ID is required")
          /\ last' = Step("join-whiteboard", c, "no-whiteboard-id", wid, sock[c].userId)
          /\ UNCHANGED pending
     ELSE /\ pending' = [pending EXCEPT ![c] =
                 Append(@, [pc |-> "User.findById", whiteboardId |-> wid,
                            userId |-> sock[c].userId])]
          /\ sent' = {}
          /\ last' = Step("join-whiteboard", c, "await", wid, sock[c].userId)
  /\ UNCHANGED <<status, sock, rooms, whiteboards>>

\* the production server: after the first await its join handler is the one of
\* src/server.js (socket.userId already holds the user the handler stores), and
\* it keeps the drawing, cursor-move and disconnect handlers only
NextProd ==
  \/ \E c \in Conns, token \in Tokens, role \in TokenRoles : ProdHandshake(c, token, role) /\ UNCHANGED env
  \/ \E c \in Conns, wid \in ProdWbIds : ProdJoinWhiteboard(c, wid) /\ UNCHANGED env
  \/ \E c \in Conns, i \in 1..MaxPending, fails \in BOOLEAN : JoinUserFound(c, i, fails) /\ UNCHANGED env
  \/ \E c \in Conns, i \in 1..MaxPending, fails \in BOOLEAN : JoinWhiteboardFound(c, i, fails) /\ UNCHANGED env
  \/ \E c \in Conns, data \in ClientData : Drawing(c, data) /\ UNCHANGED env
  \/ \E c \in Conns, data \in ClientData : CursorMove(c, data) /\ UNCHANGED env
  \/ \E c \in Conns : Disconnect(c) /\ UNCHANGED env

SpecProd == Init /\ [][NextProd]_vars

(* ---------------------------- C15 -------------------------------------- *)

\* C15: the cached role and canEdit of a connection change only in the step
\* that completes a successful join of that connection; every other step (the
\* handshake, the relays, a failed join, disconnect) leaves both unchanged.
C15_OnlyJoinSetsAuthority ==
  [][\A c \in Conns :
       (sock'[c].userRole # sock[c].userRole \/ sock'[c].canEdit # sock[c].canEdit)
         => (JoinSucceeded' /\ last'.conn = c)]_vars

(* ---------------------------- src/routes/whiteboard.js ------------------ *)

\* A REST request is one step: checkPermissions reads the whiteboard, the route
\* reads it again and saves it. Two requests racing between these reads are
\* not modelled; the hub only sees the stored record before and after a request.

\* the permissions table of checkPermissions: what each collaborator level covers
permissions == [view |-> {"view"}, edit |-> {"view", "edit"},
                admin |-> {"view", "edit", "admin"}]

\* mutant of checkPermissions: the public flag is looked at before the collaborators
checkPermissionsPublicFirst(whiteboard, uid, requiredPermission) ==
  IF ~whiteboard.exists
  THEN [result |-> "404", userRole |-> NULL]
  ELSE IF whiteboard.owner = uid
  THEN [result |-> "next", userRole |-> "owner"]
  ELSE LET k == FindCollaborator(whiteboard.collaborators, uid) IN
       IF whiteboard.isPublic /\ requiredPermission = "view"
       THEN [result |-> "next", userRole |-> "viewer"]
       ELSE IF k # 0 /\ requiredPermission \in permissions[whiteboard.collaborators[k].permission]
       THEN [result |-> "next", userRole |-> whiteboard.collaborators[k].permission]
       ELSE [result |-> "403", userRole |-> NULL]

\* checkPermissions(requiredPermission), the middleware of the REST routes:
\* "next" with req.userRole, or the status of the refusal
checkPermissions(whiteboard, uid, requiredPermission) ==
  IF ~whiteboard.exists
  THEN [result |-> "404", userRole |-> NULL]
  ELSE IF whiteboard.owner = uid
  THEN [result |-> "next", userRole |-> "owner"]
  ELSE LET k == FindCollaborator(whiteboard.collaborators, uid) IN
       IF k # 0 /\ requiredPermission \in permissions[whiteboard.collaborators[k].permission]
       THEN [result |-> "next", userRole |-> whiteboard.collaborators[k].permission]
       ELSE IF whiteboard.isPublic /\ requiredPermission = "view"
       THEN [result |-> "next", userRole |-> "viewer"]
       ELSE [result |-> "403", userRole |-> NULL]

\* a REST request changes no socket, room or pending join, and sends no packet
RestFrame ==
  /\ sent' = {}
  /\ UNCHANGED <<status, sock, rooms, pending, njoins>>

\* whiteboard.collaborators after POST /:id/collaborators for user target
WithCollaborator(cs, target, permission) ==
  LET k == FindCollaborator(cs, target) IN
  IF k # 0
  THEN [cs EXCEPT ![k].permission = permission]
  ELSE Append(cs, [user |-> target, permission |-> permission])

\* POST /:id/collaborators by account uid: the middleware, then the route
AddCollaborator(uid, wid, target, permission) ==
  LET chk == checkPermissions(whiteboards[wid], uid, "admin") IN
  /\ RestFrame
  /\ IF chk.result # "next"
     THEN /\ last' = Step("add-collaborator", NoConn, chk.result, wid, uid)
          /\ UNCHANGED whiteboards
     ELSE IF target = uid
     THEN /\ last' = Step("add-collaborator", NoConn, "400", wid, uid)
          /\ UNCHANGED whiteboards
     ELSE /\ Len(WithCollaborator(whiteboards[wid].collaborators, target, permission))
               <= MaxCollab
          /\ whiteboards' = [whiteboards EXCEPT ![wid].collaborators =
                               WithCollaborator(@, target, permission)]
          /\ last' = Step("add-collaborator", NoConn, "200", wid, uid)

\* DELETE /:id/collaborators/:userId by account uid
RemoveCollaborator(uid, wid, target) ==
  LET chk == checkPermissions(whiteboards[wid], uid, "admin") IN
  /\ RestFrame
  /\ IF chk.result # "next"
     THEN /\ last' = Step("remove-collaborator", NoConn, chk.result, wid, uid)
          /\ UNCHANGED whiteboards
     ELSE /\ whiteboards' = [whiteboards EXCEPT ![wid].collaborators =
                               SelectSeq(@, LAMBDA collab : collab.user # target)]
          /\ last' = Step("remove-collaborator", NoConn, "200", wid, uid)

\* PUT /:id/visibility by account uid
ToggleVisibility(uid, wid) ==
  LET chk == checkPermissions(whiteboards[wid], uid, "admin") IN
  /\ RestFrame
  /\ IF chk.result # "next"
     THEN /\ last' = Step("visibility", NoConn, chk.result, wid, uid)
          /\ UNCHANGED whiteboards
     ELSE /\ whiteboards' = [whiteboards EXCEPT ![wid].isPublic = ~@]
          /\ last' = Step("visibility", NoConn, "200", wid, uid)

\* DELETE /:id by account uid
DeleteWhiteboard(uid, wid) ==
  LET chk == checkPermissions(whiteboards[wid], uid, "admin") IN
  /\ RestFrame
  /\ IF chk.result # "next"
     THEN /\ last' = Step("delete-whiteboard", NoConn, chk.result, wid, uid)
          /\ UNCHANGED whiteboards
     ELSE /\ whiteboards' = [whiteboards EXCEPT ![wid] = NoWhiteboard]
          /\ last' = Step("delete-whiteboard", NoConn, "200", wid, uid)

RestOps == {"add-collaborator", "remove-collaborator", "visibility", "delete-whiteboard"}

\* the whiteboard the REST requests of the specification below are about
RestBoard == "w1"

\* the accounts that send REST requests, and the accounts they name
RestUsers == {"u1", "u2"}

RestTargets == {"u2", "u3"}

\* the hub next to the REST routes: accounts join whiteboard w1, draw and clear
\* the board while the access record of w1 is changed through the routes
NextRest ==
  \/ \E c \in Conns : Connection(c) /\ UNCHANGED env
  \/ \E c \in Conns, u \in RestTargets : JoinWhiteboard(c, RestBoard, u) /\ UNCHANGED env
  \/ \E c \in Conns : JoinUserFound(c, 1, FALSE) /\ UNCHANGED env
  \/ \E c \in Conns : JoinWhiteboardFound(c, 1, FALSE) /\ UNCHANGED env
  \/ \E c \in Conns : Drawing(c, NoData) /\ UNCHANGED env
  \/ \E c \in Conns : ClearBoard(c, NoData) /\ UNCHANGED env
  \/ \E uid \in RestUsers, target \in RestTargets, permission \in Permissions :
       AddCollaborator(uid, RestBoard, target, permission) /\ UNCHANGED env
  \/ \E uid \in RestUsers, target \in RestTargets :
       RemoveCollaborator(uid, RestBoard, target) /\ UNCHANGED env
  \/ \E uid \in RestUsers : ToggleVisibility(uid, RestBoard) /\ UNCHANGED env
  \/ \E uid \in RestUsers : DeleteWhiteboard(uid, RestBoard) /\ UNCHANGED env

SpecRest == Init /\ [][NextRest]_vars

(* ---------------------------- C17 -------------------------------------- *)

\* C17: the gates of inbound events use only the role and canEdit cached at the
\* connection's last successful join. A REST change of the access record leaves
\* every cached role and canEdit as they are, an edit-gated event or clear-board
\* is gated by the cached values alone, and a join caches what the access record
\* stored at that moment gives.
C17_CachedGate ==
  [][/\ \A c \in Conns :
          (sock'[c].userRole # sock[c].userRole \/ sock'[c].canEdit # sock[c].canEdit)
            => (JoinSucceeded' /\ last'.conn = c)
     /\ last'.op \in RestOps => sock' = sock
     /\ last'.op \in EditEvents =>
          (last'.outcome = "relayed") = sock[last'.conn].canEdit
     /\ last'.op = "clear-board" =>
          (last'.outcome = "relayed") = (sock[last'.conn].userRole \in {"owner", "admin"})
     /\ JoinSucceeded' =>
          LET perm == JoinPermission(whiteboards[last'.whiteboardId], last'.userId) IN
          /\ perm.ok
          /\ sock'[last'.conn].userRole = perm.userRole
          /\ sock'[last'.conn].canEdit = perm.canEdit
     /\ (last'.op = "join-whiteboard" /\ last'.outcome = "access-denied") =>
          ~JoinPermission(whiteboards[last'.whiteboardId], last'.userId).ok
    ]_vars

\* a connection that joined with canEdit draws and is relayed to the other
\* member although the access record now stored gives its user no edit right
C17_Witness ==
  /\ last.op = "drawing"
  /\ last.outcome = "relayed"
  /\ Recipients("drawing") # {}
  /\ ~JoinPermission(whiteboards[last.whiteboardId], last.userId).canEdit

(* ---------------------------- C20 -------------------------------------- *)

\* the database stops answering: no lookup issued or pending gets an answer from
\* now on (the handlers await User.findById and Whiteboard.findById without a timer)
DatabaseStops ==
  /\ dbUp
  /\ dbUp' = FALSE
  /\ UNCHANGED <<status, sock, rooms, pending, whiteboards, njoins, last, sent,
                 inq, nsent, seen, known>>

\* a lookup of connection c is answered and its join handler resumes
Resume(c) ==
  \E i \in 1..MaxPending, fails \in BOOLEAN :
    /\ dbUp
    /\ JoinUserFound(c, i, fails) \/ JoinWhiteboardFound(c, i, fails)
    /\ UNCHANGED env

\* connections that stay open send join-whiteboard requests, and the database
\* may stop answering at any moment
NextLive ==
  \/ \E c \in Conns : Connection(c) /\ UNCHANGED env
  \/ \E c \in Conns, d \in JoinPayloads : JoinWhiteboard(c, d[1], d[2]) /\ UNCHANGED env
  \/ \E c \in Conns : Resume(c)
  \/ DatabaseStops

\* fairness: as long as the database answers, the event loop resumes the handler
\* that awaits the answer
SpecLive == Init /\ [][NextLive]_vars /\ \A c \in Conns : WF_vars(Resume(c))

\* the step that ran last ended a join-whiteboard request of connection c and
\* delivered exactly one room-info or error to it
JoinEnded(c) ==
  /\ last.conn = c
  /\ JoinFailed \/ JoinSucceeded
  /\ Cardinality(Delivered(c, "room-info") \cup Delivered(c, "error")) = 1

\* C20: every join-whiteboard request that awaits a lookup eventually ends with
\* exactly one outcome, room-info or error, delivered to the joiner, also when
\* the lookup never answers.
C20_JoinEnds ==
  \A c \in Conns : (pending[c] # <<>>) ~> JoinEnded(c)

(* ---------------------------- C19 -------------------------------------- *)

\* how many events a client sends
MaxSends == 3

\* the relayed events the clients of the ordering specification send
SendEvents == {"drawing", "clear-board", "cursor-move"}

\* a client emits an event on its connection: the packet is numbered and queued
\* behind the packets of that connection the server has not handled yet
ClientSend(c, ev) ==
  /\ status[c] = "open"
  /\ nsent[c] < MaxSends
  /\ nsent' = [nsent EXCEPT ![c] = @ + 1]
  /\ inq' = [inq EXCEPT ![c] = Append(@, [event |-> ev, seq |-> nsent[c] + 1])]
  /\ UNCHANGED <<status, sock, rooms, pending, whiteboards, njoins, last, sent,
                 dbUp, seen, known>>

\* the listener registered for event ev
Listener(c, ev, data) ==
  CASE ev = "drawing" -> Drawing(c, data)
    [] ev = "clear-board" -> ClearBoard(c, data)
    [] ev = "cursor-move" -> CursorMove(c, data)

\* mutant of Dispatch: the packet queued last is handled first
DispatchLatest(c) ==
  /\ inq[c] # <<>>
  /\ LET e == inq[c][Len(inq[c])] IN
     /\ Listener(c, e.event, NoData)
     /\ inq' = [inq EXCEPT ![c] = SubSeq(@, 1, Len(@) - 1)]
     /\ seen' = [d \in Conns |->
                   IF \E m \in sent' : m.to = d /\ m.event = e.event
                   THEN [seen[d] EXCEPT ![c] = e.seq]
                   ELSE seen[d]]
  /\ UNCHANGED <<dbUp, nsent, known>>

\* the socket hands the oldest packet of connection c to its listener, which
\* runs to its end; each receiver of the relay notes the packet's number
Dispatch(c) ==
  /\ inq[c] # <<>>
  /\ LET e == Head(inq[c]) IN
     /\ Listener(c, e.event, NoData)
     /\ inq' = [inq EXCEPT ![c] = Tail(@)]
     /\ seen' = [d \in Conns |->
                   IF \E m \in sent' : m.to = d /\ m.event = e.event
                   THEN [seen[d] EXCEPT ![c] = e.seq]
                   ELSE seen[d]]
  /\ UNCHANGED <<dbUp, nsent, known>>

\* the connection whose events the ordering specification follows
Sender == 1

\* the ordering specification: the connections join w1 and disconnect, the
\* sender queues events of every kind, and the server handles the queued packets
NextOrder ==
  \/ \E c \in Conns : Connection(c) /\ UNCHANGED env
  \/ \E c \in Conns, u \in {"u1", "u2"} : JoinWhiteboard(c, "w1", u) /\ UNCHANGED env
  \/ \E c \in Conns : JoinUserFound(c, 1, FALSE) /\ UNCHANGED env
  \/ \E c \in Conns : JoinWhiteboardFound(c, 1, FALSE) /\ UNCHANGED env
  \/ \E ev \in SendEvents : ClientSend(Sender, ev)
  \/ Dispatch(Sender)
  \/ \E c \in Conns : Disconnect(c) /\ UNCHANGED env

SpecOrder == Init /\ [][NextOrder]_vars

GetWhiteboard(uid, wid) ==
  LET chk == checkPermissions(whiteboards[wid], uid, "view") IN
  /\ RestFrame
  /\ last' = Step("get-whiteboard", NoConn,
                  IF chk.result = "next" THEN "200" ELSE chk.result, wid, uid)
  /\ UNCHANGED whiteboards

\* PUT /:id by account uid: the drawing data is replaced, the access fields stay
UpdateWhiteboard(uid, wid) ==
  LET chk == checkPermissions(whiteboards[wid], uid, "edit") IN
  /\ RestFrame
  /\ last' = Step("update-whiteboard", NoConn,
                  IF chk.result = "next" THEN "200" ELSE chk.result, wid, uid)
  /\ UNCHANGED whiteboards

\* the policy specification: whiteboard w1 holds any access record; one
\* connection joins it as any account and clears the board, and every account
\* sends the REST requests that need view, edit and admin
NextPolicy ==
  \/ Connection(1) /\ UNCHANGED env
  \/ \E u \in Users : JoinWhiteboard(1, "w1", u) /\ UNCHANGED env
  \/ JoinUserFound(1, 1, FALSE) /\ UNCHANGED env
  \/ JoinWhiteboardFound(1, 1, FALSE) /\ UNCHANGED env
  \/ ClearBoard(1, NoData) /\ UNCHANGED env
  \/ \E uid \in Users : GetWhiteboard(uid, "w1") /\ UNCHANGED env
  \/ \E uid \in Users : UpdateWhiteboard(uid, "w1") /\ UNCHANGED env
  \/ \E uid \in Users : ToggleVisibility(uid, "w1") /\ UNCHANGED env

SpecPolicy == InitResolver /\ [][NextPolicy]_vars

\* what the join handler resolves for user uid on the stored record of w1, and
\* whether the middleware lets uid pass for the required permission
JoinOf(uid) == JoinPermission(whiteboards["w1"], uid)

Passes(uid, requiredPermission) ==
  checkPermissions(whiteboards["w1"], uid, requiredPermission).result = "next"

\* C21: the REST middleware and the socket policy agree on every access record
\* and user: 'view' passes iff the join is admitted, 'edit' passes iff the join
\* gives canEdit, 'admin' passes iff the join gives a role that clear-board
\* relays for, and a passing middleware reports the role the join caches.
C21_PolicyEquivalence ==
  /\ \A uid \in Users :
       /\ Passes(uid, "view") = JoinOf(uid).ok
       /\ Passes(uid, "edit") = (JoinOf(uid).ok /\ JoinOf(uid).canEdit)
       /\ Passes(uid, "admin") =
            (JoinOf(uid).ok /\ JoinOf(uid).userRole \in {"owner", "admin"})
       /\ \A requiredPermission \in Permissions :
            Passes(uid, requiredPermission) =>
              checkPermissions(whiteboards["w1"], uid, requiredPermission).userRole
                = JoinOf(uid).userRole
  /\ last.op = "get-whiteboard" => (last.outcome = "200") = JoinOf(last.userId).ok
  /\ last.op = "update-whiteboard" =>
       (last.outcome = "200") = (JoinOf(last.userId).ok /\ JoinOf(last.userId).canEdit)
  /\ JoinSucceeded => Passes(last.userId, "view")
  /\ (last.op = "clear-board" /\ last.outcome = "relayed"
        /\ JoinOf(sock[1].userId).ok
        /\ JoinOf(sock[1].userId).userRole = sock[1].userRole)
       => Passes(sock[1].userId, "admin")

\* a stranger of a public whiteboard passes GET as the connection that joined
\* under the same account holds the role viewer, while a collaborator entry of
\* another account is stored
C21_Witness ==
  /\ last.op = "get-whiteboard"
  /\ last.outcome = "200"
  /\ sock[1].userId = last.userId
  /\ sock[1].userRole = "viewer"
  /\ whiteboards["w1"].isPublic
  /\ whiteboards["w1"].collaborators # <<>>

(* ---------------------------- C22 -------------------------------------- *)

\* C22: DELETE /:id and PUT /:id/visibility succeed only for the owner: a
\* request of any other account on a stored whiteboard is answered 403 and
\* leaves the stored whiteboards as they are.
C22_OwnerOnly ==
  [][(/\ last'.op \in {"delete-whiteboard", "visibility"}
      /\ whiteboards[last'.whiteboardId].exists
      /\ whiteboards[last'.whiteboardId].owner # last'.userId)
       => (last'.outcome = "403" /\ whiteboards' = whiteboards)]_vars

(* ---------------------------- C23 -------------------------------------- *)

\* how many join handlers of one connection may await a lookup at once
MaxInFlight == 2

\* the in-flight specification: a connection sends further join-whiteboard
\* requests while earlier ones await their lookups, the lookups answer in any
\* order, and the connections draw and clear the board in between
NextFlight ==
  \/ \E c \in Conns : Connection(c) /\ UNCHANGED env
  \/ \E c \in Conns, wid \in {"w1", "w2"}, u \in Users :
       JoinRequest(c, wid, u, MaxInFlight) /\ UNCHANGED env
  \/ \E c \in Conns, i \in 1..MaxInFlight : JoinUserFound(c, i, FALSE) /\ UNCHANGED env
  \/ \E c \in Conns, i \in 1..MaxInFlight : JoinWhiteboardFound(c, i, FALSE) /\ UNCHANGED env
  \/ \E c \in Conns : Drawing(c, NoData) /\ UNCHANGED env
  \/ \E c \in Conns : ClearBoard(c, NoData) /\ UNCHANGED env

\* connection 2 has already joined w1 as the collaborator u2 (edit) when the
\* in-flight specification starts
InitFlight ==
  /\ status = [c \in Conns |-> IF c = 2 THEN "open" ELSE "idle"]
  /\ sock = [c \in Conns |->
               IF c = 2
               THEN [userId |-> "u2", username |-> Username("u2"), userRole |-> "edit",
                     canEdit |-> TRUE, whiteboardId |-> "w1"]
               ELSE NewSocket]
  /\ rooms = [w \in WbIds |-> IF w = "w1" THEN {2} ELSE {}]
  /\ pending = [c \in Conns |-> <<>>]
  /\ whiteboards \in InitialBoards
  /\ njoins = 0
  /\ last = Step("join-whiteboard", 2, "joined", "w1", "u2")
  /\ sent = Emit(status, 2, "room-info",
               [NoFields EXCEPT !.whiteboardId = "w1",
                                !.users = usersInRoom(status, rooms, sock, "w1"),
                                !.yourRole = "edit",
                                !.canEdit = TRUE])
  /\ dbUp = TRUE
  /\ inq = [c \in Conns |-> <<>>]
  /\ nsent = [c \in Conns |-> 0]
  /\ seen = [d \in Conns |-> [c \in Conns |-> 0]]
  /\ known = [d \in Conns |-> IF d = 2 THEN {2} ELSE {}]

SpecFlight == InitFlight /\ [][NextFlight]_vars

\* the step relays a mutation event of a sender to somebody
MutationRelayed ==
  /\ last.op \in EditEvents \cup {"clear-board"}
  /\ last.outcome = "relayed"
  /\ Recipients(last.op) # {}

\* C23: no mutation event is relayed on stale or foreign authority. The room,
\* user, role and canEdit of a socket change only in the step that completes a
\* successful join, to that join's room and user; an edit-gated event or
\* clear-board that is delivered goes to members of that room only, and the
\* access record of that room gives the sender's user canEdit (for clear-board:
\* the role owner or admin), also with several joins of the sender in flight.
C23_NoStaleAuthority ==
  [][/\ \A c \in Conns :
          sock'[c] # sock[c] =>
            /\ JoinSucceeded' /\ last'.conn = c
            /\ sock'[c].whiteboardId = last'.whiteboardId
            /\ sock'[c].userId = last'.userId
     /\ MutationRelayed' =>
          LET c == last'.conn
              R == sock'[c].whiteboardId
              perm == JoinPermission(whiteboards'[R], sock'[c].userId)
          IN /\ R # NULL
             /\ c \in rooms'[R]
             /\ \A m \in sent' : m.to \in rooms'[R]
             /\ perm.ok
             /\ last'.op \in EditEvents => perm.canEdit
             /\ last'.op = "clear-board" => perm.userRole \in {"owner", "admin"}
    ]_vars

\* a connection relays a mutation event to another member while two of its
\* join requests are in flight
C23_Witness ==
  /\ MutationRelayed
  /\ Len(pending[last.conn]) = 2

(* ---------------------------- C24 -------------------------------------- *)

\* C24: a join-whiteboard request that fails while its connection is a member
\* of a room changes no socket field (room, role, canEdit, user id, username)
\* and no room's member set.
C24_FailedRejoinFrame ==
  [][(JoinFailed' /\ sock[last'.conn].whiteboardId # NULL)
       => (sock' = sock /\ rooms' = rooms)]_vars

\* a member that may edit was refused another whiteboard and is still a member
\* of its room with canEdit
C24_Witness ==
  /\ JoinFailed
  /\ last.outcome = "access-denied"
  /\ status[last.conn] = "open"
  /\ sock[last.conn].whiteboardId # NULL
  /\ sock[last.conn].whiteboardId # last.whiteboardId
  /\ last.conn \in rooms[sock[last.conn].whiteboardId]
  /\ sock[last.conn].canEdit

(* ---------------------------- C25 -------------------------------------- *)

\* what each client has been told after receiving the packets of a step: the
\* members listed in a room-info and the subject of a user-joined are present,
\* the subject of a user-left is gone
Told(kn, packets) ==
  [d \in Conns |->
     (kn[d]
        \cup {m.socketId : m \in {x \in packets : x.to = d /\ x.event = "user-joined"}}
        \cup UNION {{u.socketId : u \in m.users} :
                      m \in {x \in packets : x.to = d /\ x.event = "room-info"}})
     \ {m.socketId : m \in {x \in packets : x.to = d /\ x.event = "user-left"}}]

\* the presence specification: the connections join and disconnect with their
\* handlers interleaved, and every client keeps track of what it is told
NextPresence ==
  \/ \E c \in Conns : Connection(c) /\ UNCHANGED env
  \/ \E c \in Conns, d \in JoinPayloads : JoinWhiteboard(c, d[1], d[2]) /\ UNCHANGED env
  \/ \E c \in Conns, i \in 1..MaxPending, fails \in BOOLEAN :
       JoinUserFound(c, i, fails) /\ UNCHANGED env
  \/ \E c \in Conns, i \in 1..MaxPending, fails \in BOOLEAN :
       /\ JoinWhiteboardFound(c, i, fails)
       /\ known' = Told(known, sent')
       /\ UNCHANGED <<dbUp, inq, nsent, seen>>
  \/ \E c \in Conns :
       /\ Disconnect(c)
       /\ known' = Told(known, sent')
       /\ UNCHANGED <<dbUp, inq, nsent, seen>>

SpecPresence == Init /\ [][NextPresence]_vars

\* no join handler awaits a lookup
Quiescent == \A c \in Conns : pending[c] = <<>>

\* C25: at quiescence, any two connections that are members of the same room
\* have each been told of the other, by the member list of a room-info or by a
\* user-joined that no user-left followed.
C25_PresenceComplete ==
  Quiescent =>
    \A w \in WbIds : \A a \in rooms[w], b \in rooms[w] : b \in known[a]

\* a join has just completed, no handler is pending, both connections are
\* members of the joined room, and one of them is a member of a second room too
C25_Witness ==
  /\ Quiescent
  /\ JoinSucceeded
  /\ rooms[last.whiteboardId] = Conns
  /\ \E w \in WbIds : w # last.whiteboardId /\ rooms[w] # {}

====
